---- MODULE Spec2Model ----
(***************************************************************************)
(* Green Card Timeline Simulator (src/run.py).                             *)
(*                                                                         *)
(* The program is a Streamlit script: every interaction re-runs the whole  *)
(* script top to bottom, and only st.session_state survives from one run   *)
(* to the next.  One run is modelled as the sequence of its sections       *)
(* (widgets, get_latest_visa_bulletin_url, scrape_visa_bulletin, the       *)
(* priority date check, the timeline calculation); an exception ends the   *)
(* run where it is raised.                                                 *)
(*                                                                         *)
(* Dates are proleptic Gregorian ordinals, as date.toordinal() gives them  *)
(* (0001-01-01 is 1); a timedelta is a number of days.  Text is a sequence *)
(* of one-character strings; the no-break space U+00A0 is written "nbsp".  *)
(* Month counts that the widgets give as floats are kept in hundredths of  *)
(* a month (the widgets' step), on values the float product represents     *)
(* exactly.                                                                *)
(***************************************************************************)
EXTENDS Integers, Sequences, FiniteSets, TLC

(***************************************************************************)
(* Python's None.  No date has ordinal 0.                                  *)
(***************************************************************************)
None == 0

(***************************************************************************)
(* datetime.date arithmetic                                                *)
(***************************************************************************)
IsLeap(y) == (y % 4 = 0) /\ ((y % 100 # 0) \/ (y % 400 = 0))

DaysInMonth(y, m) ==
    IF m = 2 THEN (IF IsLeap(y) THEN 29 ELSE 28)
    ELSE IF m \in {4, 6, 9, 11} THEN 30 ELSE 31

DaysBeforeYear(y) ==
    (y - 1) * 365 + ((y - 1) \div 4) - ((y - 1) \div 100) + ((y - 1) \div 400)

RECURSIVE DaysBeforeMonth(_, _)
DaysBeforeMonth(y, m) ==
    IF m = 1 THEN 0 ELSE DaysBeforeMonth(y, m - 1) + DaysInMonth(y, m - 1)

\* date(y, m, d).toordinal()
ToOrdinal(y, m, d) == DaysBeforeYear(y) + DaysBeforeMonth(y, m) + d

\* date.fromordinal(n).year
YearOf(n) ==
    LET guess == (n * 400) \div 146097
    IN  CHOOSE y \in guess .. (guess + 2) :
            DaysBeforeYear(y) < n /\ n <= DaysBeforeYear(y + 1)

\* date.fromordinal(n).month
MonthOf(n) ==
    LET y == YearOf(n)
        k == n - DaysBeforeYear(y)
    IN  CHOOSE m \in 1 .. 12 :
            DaysBeforeMonth(y, m) < k /\ k <= DaysBeforeMonth(y, m) + DaysInMonth(y, m)

\* d.replace(day=1)
ReplaceDay1(n) == ToOrdinal(YearOf(n), MonthOf(n), 1)

\* target.strftime("%B").lower()
MonthNameLower(m) ==
    <<"january", "february", "march", "april", "may", "june", "july",
      "august", "september", "october", "november", "december">>[m]

\* month_name.capitalize()
Capitalize(name) ==
    CASE name = "january"   -> "January"
      [] name = "february"  -> "February"
      [] name = "march"     -> "March"
      [] name = "april"     -> "April"
      [] name = "may"       -> "May"
      [] name = "june"      -> "June"
      [] name = "july"      -> "July"
      [] name = "august"    -> "August"
      [] name = "september" -> "September"
      [] name = "october"   -> "October"
      [] name = "november"  -> "November"
      [] name = "december"  -> "December"

(***************************************************************************)
(* str operations                                                          *)
(***************************************************************************)
LowerLetters ==
    <<"a","b","c","d","e","f","g","h","i","j","k","l","m",
      "n","o","p","q","r","s","t","u","v","w","x","y","z">>

UpperLetters ==
    <<"A","B","C","D","E","F","G","H","I","J","K","L","M",
      "N","O","P","Q","R","S","T","U","V","W","X","Y","Z">>

Digits == <<"0","1","2","3","4","5","6","7","8","9">>

\* what str.strip() strips and the regular expression \s matches
Whitespace == {" ", "\t", "\n", "nbsp"}

IsDigit(c) == \E i \in 1 .. 10 : Digits[i] = c

DigitVal(c) == (CHOOSE i \in 1 .. 10 : Digits[i] = c) - 1

UpperChar(c) ==
    IF \E i \in 1 .. 26 : LowerLetters[i] = c
    THEN UpperLetters[CHOOSE i \in 1 .. 26 : LowerLetters[i] = c]
    ELSE c

\* str.upper()
Upper(s) == [i \in 1 .. Len(s) |-> UpperChar(s[i])]

RECURSIVE LStrip(_)
LStrip(s) ==
    IF s # <<>> /\ Head(s) \in Whitespace THEN LStrip(Tail(s)) ELSE s

RECURSIVE RStrip(_)
RStrip(s) ==
    IF s # <<>> /\ s[Len(s)] \in Whitespace
    THEN RStrip(SubSeq(s, 1, Len(s) - 1))
    ELSE s

\* str.strip()
Strip(s) == RStrip(LStrip(s))

\* re.sub(r"\s+", " ", s)
RECURSIVE CollapseWhitespace(_)
CollapseWhitespace(s) ==
    IF s = <<>> THEN <<>>
    ELSE IF Head(s) \in Whitespace
         THEN <<" ">> \o CollapseWhitespace(LStrip(s))
         ELSE <<Head(s)>> \o CollapseWhitespace(Tail(s))

\* s.replace("\xa0", "")
RemoveNbsp(s) == SelectSeq(s, LAMBDA c : c # "nbsp")

\* whether sub occurs in s
Contains(s, sub) ==
    \E i \in 1 .. (Len(s) - Len(sub) + 1) : SubSeq(s, i, i + Len(sub) - 1) = sub

(***************************************************************************)
(* Table cells as pandas.read_html gives them: NaN for an empty cell,      *)
(* text otherwise; parse_visa_date also accepts values that are dates.     *)
(***************************************************************************)
NaN == [kind |-> "nan", text |-> <<>>, date |-> None]

Txt(s) == [kind |-> "str", text |-> s, date |-> None]

DateCell(d) == [kind |-> "date", text |-> <<>>, date |-> d]

\* str(val) / astype(str)
AsStr(cell) ==
    IF cell.kind = "nan" THEN <<"n", "a", "n">> ELSE cell.text

(***************************************************************************)
(* datetime.strptime(val, "%d%b%y").date()                                 *)
(* A result is [exc, val]: exc names the exception raised ("" for none).   *)
(***************************************************************************)
Returned(v) == [exc |-> "", val |-> v]

Raised(e) == [exc |-> e, val |-> None]

MonthAbbr ==
    << <<"J","A","N">>, <<"F","E","B">>, <<"M","A","R">>, <<"A","P","R">>,
       <<"M","A","Y">>, <<"J","U","N">>, <<"J","U","L">>, <<"A","U","G">>,
       <<"S","E","P">>, <<"O","C","T">>, <<"N","O","V">>, <<"D","E","C">> >>

\* %y: two digits, 69-99 are 1969-1999 and 00-68 are 2000-2068
PivotYear(yy) == IF yy <= 68 THEN 2000 + yy ELSE 1900 + yy

Strptime(s) ==
    LET nd == IF Len(s) >= 2 /\ IsDigit(s[1]) /\ IsDigit(s[2]) THEN 2
              ELSE IF Len(s) >= 1 /\ IsDigit(s[1]) THEN 1 ELSE 0
        day == IF nd = 2 THEN 10 * DigitVal(s[1]) + DigitVal(s[2])
               ELSE IF nd = 1 THEN DigitVal(s[1]) ELSE 0
        wellFormed ==
            /\ nd > 0
            /\ day \in 1 .. 31
            /\ Len(s) = nd + 5
            /\ \E m \in 1 .. 12 : Upper(SubSeq(s, nd + 1, nd + 3)) = MonthAbbr[m]
            /\ IsDigit(s[nd + 4])
            /\ IsDigit(s[nd + 5])
    IN  IF ~wellFormed THEN Raised("ValueError")
        ELSE LET mon  == CHOOSE m \in 1 .. 12 :
                             Upper(SubSeq(s, nd + 1, nd + 3)) = MonthAbbr[m]
                 year == PivotYear(10 * DigitVal(s[nd + 4]) + DigitVal(s[nd + 5]))
             IN  IF day > DaysInMonth(year, mon) THEN Raised("ValueError")
                 ELSE Returned(ToOrdinal(year, mon, day))

(***************************************************************************)
(* parse_visa_date(val), read at the clock value today                     *)
(***************************************************************************)
parse_visa_date(val, today) ==
    IF val.kind = "nan" THEN Returned(None)
    ELSE IF val.kind = "date" THEN Returned(val.date)
    ELSE LET s == Strip(val.text)
         IN  IF s = <<"C">> THEN Returned(today)
             ELSE IF s = <<"U">> THEN Returned(None)
             ELSE Strptime(s)

(***************************************************************************)
(* The pages requests.get(url) may answer with, as the list of tables      *)
(* pandas.read_html finds in them.  A table is a sequence of rows, a row a *)
(* sequence of cells.  The pages of the model keep the labels of a table   *)
(* distinct and its first header cell non-empty.                           *)
(***************************************************************************)
EmploymentToken == <<"E","M","P","L","O","Y","M","E","N","T">>

\* a family-sponsored table: three rows, no "Employment" in its first row
FamilyTable ==
    << << Txt(<<"F","a","m","i","l","y","-"," ","S","p","o","n","s","o","r","e","d">>),
          Txt(<<"I","N","D","I","A">>) >>,
       << Txt(<<"F","1">>),
          Txt(<<"0","1","J","A","N","1","5">>) >>,
       << Txt(<<"F","2","A">>),
          Txt(<<"C">>) >> >>

\* the first employment-based table of the page
FirstEmploymentTable ==
    << << Txt(<<"E","m","p","l","o","y","m","e","n","t","-"," ","b","a","s","e","d">>),
          Txt(<<" ","I","N","D","I","A">>),
          Txt(<<"C","H","I","N","A","-","nbsp","m","a","i","n","l","a","n","d"," ","b","o","r","n">>) >>,
       << Txt(<<"1","s","t">>),
          Txt(<<"C">>),
          Txt(<<"C">>) >>,
       << Txt(<<"2","n","d">>),
          Txt(<<"1","5","J","U","L","1","3">>),
          Txt(<<"0","1","S","E","P","2","1">>) >>,
       << Txt(<<"3","r","d"," ">>),
          Txt(<<"U">>),
          NaN >> >>

\* the second employment-based table of the page
SecondEmploymentTable ==
    << << Txt(<<"E","m","p","l","o","y","m","e","n","t","-","nbsp","B","a","s","e","d">>),
          Txt(<<"I","N","D","I","A">>),
          Txt(<<"C","h","i","n","a","-"," ","m","a","i","n","l","a","n","d"," "," ","b","o","r","n">>) >>,
       << Txt(<<"1","s","t">>),
          Txt(<<"C">>),
          Txt(<<"1","5","J","A","N","2","3">>) >>,
       << Txt(<<" ","2","n","d">>),
          Txt(<<"0","1","D","E","C","1","3">>),
          Txt(<<"U">>) >>,
       << Txt(<<"3","r","d">>),
          Txt(<<"N","/","A">>),
          Txt(<<"0","1","J","A","N","2","2">>) >> >>

\* an employment table of two rows, which len(table) > 2 leaves out
ShortEmploymentTable ==
    << << Txt(<<"E","m","p","l","o","y","m","e","n","t"," ","t","o","t","a","l","s">>),
          Txt(<<"I","N","D","I","A">>) >>,
       << Txt(<<"2","n","d">>),
          Txt(<<"7">>) >> >>

PageNames == {"bulletin", "one_employment_table", "no_tables"}

PageTables(page) ==
    CASE page = "bulletin" ->
         <<FamilyTable, FirstEmploymentTable, ShortEmploymentTable, SecondEmploymentTable>>
      [] page = "one_employment_table" ->
         <<FamilyTable, FirstEmploymentTable>>
      [] page = "no_tables" -> <<>>

(***************************************************************************)
(* normalize_df                                                            *)
(***************************************************************************)
NormalizeLabel(cell) ==
    Upper(RemoveNbsp(CollapseWhitespace(Strip(AsStr(cell)))))

\* table.columns = table.iloc[0]; table.iloc[1:].set_index(table.columns[0])
SetHeaderAndIndex(table) ==
    [columns |-> Tail(table[1]),
     index   |-> [i \in 1 .. (Len(table) - 1) |-> table[i + 1][1]],
     data    |-> [i \in 1 .. (Len(table) - 1) |-> Tail(table[i + 1])]]

normalize_df(df) ==
    [columns |-> [j \in 1 .. Len(df.columns) |-> NormalizeLabel(df.columns[j])],
     index   |-> [i \in 1 .. Len(df.index) |-> NormalizeLabel(df.index[i])],
     data    |-> df.data]

\* df.loc[row, col]
Loc(df, row, col) ==
    IF (\E i \in 1 .. Len(df.index) : df.index[i] = row)
       /\ (\E j \in 1 .. Len(df.columns) : df.columns[j] = col)
    THEN Returned(df.data[CHOOSE i \in 1 .. Len(df.index) : df.index[i] = row]
                         [CHOOSE j \in 1 .. Len(df.columns) : df.columns[j] = col])
    ELSE Raised("KeyError")

(***************************************************************************)
(* scrape_visa_bulletin                                                    *)
(* The result is [exc, f, a, errors]: the pair returned, the exception     *)
(* that left the function, and the st.error messages shown.                *)
(***************************************************************************)
country_dict(country) ==
    CASE country = "Rest of World" ->
         <<"A","L","L"," ","C","H","A","R","G","E","A","B","I","L","I","T","Y"," ","A","R","E","A","S"," ","E","X","C","E","P","T"," ","T","H","O","S","E"," ","L","I","S","T","E","D">>
      [] country = "CHINA" ->
         <<"C","H","I","N","A","-"," ","M","A","I","N","L","A","N","D"," ","B","O","R","N">>
      [] country = "INDIA" ->
         <<"I","N","D","I","A">>
      [] country = "MEXICO" ->
         <<"M","E","X","I","C","O">>
      [] country = "PHILIPPINES" ->
         <<"P","H","I","L","I","P","P","I","N","E","S">>

eb_dict(eb_type) ==
    CASE eb_type = "EB-1" -> <<"1","S","T">>
      [] eb_type = "EB-2" -> <<"2","N","D">>
      [] eb_type = "EB-3" -> <<"3","R","D">>

IsEmploymentTable(table) ==
    /\ Len(table) > 2
    /\ \E j \in 1 .. Len(table[1]) : Contains(Upper(AsStr(table[1][j])), EmploymentToken)

EmploymentTables(tables) == SelectSeq(tables, IsEmploymentTable)

FilingTableIndex == 1

ActionTableIndex == 2

ScrapeResult(e, f, a, errs) == [exc |-> e, f |-> f, a |-> a, errors |-> errs]

scrape_visa_bulletin(page, country, eb_type, today) ==
    LET tables == PageTables(page)
        employment_tables == EmploymentTables(tables)
    IN  IF tables = <<>>
        THEN ScrapeResult("ValueError", None, None, <<>>)
        ELSE IF Len(employment_tables) < 2
        THEN ScrapeResult("", None, None, <<"Employment tables not found">>)
        ELSE
        LET action_df  == normalize_df(SetHeaderAndIndex(employment_tables[ActionTableIndex]))
            filing_df  == normalize_df(SetHeaderAndIndex(employment_tables[FilingTableIndex]))
            country_id == Upper(country_dict(country))
            eb_id      == eb_dict(eb_type)
            f_cell     == Loc(filing_df, eb_id, country_id)
            a_cell     == Loc(action_df, eb_id, country_id)
            mismatch   == ScrapeResult("", None, None,
                                       <<"Column mismatch after normalization">>)
        IN  IF f_cell.exc # "" THEN mismatch
            ELSE LET f_date == parse_visa_date(f_cell.val, today)
                 IN  IF f_date.exc # ""
                     THEN ScrapeResult(f_date.exc, None, None, <<>>)
                     ELSE IF a_cell.exc # "" THEN mismatch
                     ELSE LET a_date == parse_visa_date(a_cell.val, today)
                          IN  IF a_date.exc # ""
                              THEN ScrapeResult(a_date.exc, None, None, <<>>)
                              ELSE ScrapeResult("", f_date.val, a_date.val, <<>>)

(***************************************************************************)
(* get_latest_visa_bulletin_url                                            *)
(* A URL is the pair the template is filled with; web gives the status     *)
(* code each URL answers with.  The result carries the probes made, in     *)
(* order.                                                                  *)
(***************************************************************************)
\* the current month probed before the next one
ProbeOrder_CurrentFirst == <<0, 1>>

ProbeOrder == <<1, 0>>

DaysPerProbeStep == 32

OkStatus == 200

Target(today, i) == ReplaceDay1(today) + DaysPerProbeStep * i

BulletinUrl(year, month_name) == [year |-> year, month_name |-> month_name]

NoUrl == [year |-> None, month_name |-> ""]

CandidateUrl(today, i) ==
    BulletinUrl(YearOf(Target(today, i)), MonthNameLower(MonthOf(Target(today, i))))

CandidateUrls(today) == {CandidateUrl(today, ProbeOrder[k]) : k \in 1 .. Len(ProbeOrder)}

NotFound(probes) == [url |-> NoUrl, month |-> "", year |-> None, probes |-> probes]

RECURSIVE ProbeFrom(_, _, _, _)
ProbeFrom(today, web, k, probes) ==
    IF k > Len(ProbeOrder) THEN NotFound(probes)
    ELSE LET url  == CandidateUrl(today, ProbeOrder[k])
             r    == web[url]
             made == Append(probes, [url |-> url, status |-> r])
         IN  IF r = OkStatus
             THEN [url |-> url, month |-> Capitalize(url.month_name),
                   year |-> url.year, probes |-> made]
             ELSE ProbeFrom(today, web, k + 1, made)

get_latest_visa_bulletin_url(today, web) == ProbeFrom(today, web, 1, <<>>)

(***************************************************************************)
(* The timeline calculation's pieces                                       *)
(***************************************************************************)
Max(x, y) == IF x >= y THEN x ELSE y

\* int(months * 30), months in hundredths of a month
MonthsToDays(months) == (months * 30) \div 100

i140_approval_months == 4

PremiumDays == 45

\* the RFE durations the rfe_toggle checkbox sets
RfeMonths(rfe_toggle) ==
    IF rfe_toggle THEN [response |-> 200, review |-> 300]
    ELSE [response |-> 0, review |-> 0]

\* the premium checkbox left out of the approval estimate
I140Approved_PremiumIgnored(i140_filed, premium, rfe_toggle, i140_days, rfe_response_days, rfe_review_days) ==
    IF rfe_toggle
    THEN i140_filed + (i140_days \div 2) + rfe_response_days + rfe_review_days
    ELSE i140_filed + i140_days

\* the RFE review time left out of the RFE path
I140Approved_NoReview(i140_filed, premium, rfe_toggle, i140_days, rfe_response_days, rfe_review_days) ==
    IF rfe_toggle
    THEN i140_filed + (i140_days \div 2) + rfe_response_days
    ELSE IF premium THEN i140_filed + PremiumDays ELSE i140_filed + i140_days

I140Approved(i140_filed, premium, rfe_toggle, i140_days, rfe_response_days, rfe_review_days) ==
    LET base == IF premium THEN i140_filed + PremiumDays ELSE i140_filed + i140_days
    IN  IF rfe_toggle
        THEN LET rfe_issued   == i140_filed + (i140_days \div 2)
                 rfe_response == rfe_issued + rfe_response_days
             IN  rfe_response + rfe_review_days
        ELSE base

\* a missing cutoff counted as no wait
DateDiff_NoneIsZero(x, y) == IF y = None THEN Returned(0) ELSE Returned(x - y)

\* (x - y).days: date - None raises TypeError
DateDiff(x, y) == IF y = None THEN Raised("TypeError") ELSE Returned(x - y)

\* the subtraction the other way round
BacklogDays_Reversed(priority_date, cutoff) ==
    IF cutoff = None THEN Raised("TypeError")
    ELSE Returned(Max(0, cutoff - priority_date))

\* the floor at 0 left out
BacklogDays_NoFloor(priority_date, cutoff) ==
    IF cutoff = None THEN Raised("TypeError")
    ELSE Returned(priority_date - cutoff)

\* max(0, (priority_date - cutoff).days)
BacklogDays(priority_date, cutoff) ==
    LET d == DateDiff(priority_date, cutoff)
    IN  IF d.exc # "" THEN d ELSE Returned(Max(0, d.val))

NoCalc ==
    [exc |-> "", ran |-> FALSE, letters_done |-> None, petition_ready |-> None,
     priority_date |-> None, i140_approved |-> None,
     backlog_filing_days |-> 0, backlog_final_days |-> 0,
     i485_eligible_date |-> None, final_action_date |-> None,
     ead_received |-> None, gc_received |-> None,
     milestones |-> <<>>, timeline_data |-> <<>>]

Calculations(inp, filing_cutoff, final_cutoff) ==
    LET letters_days      == MonthsToDays(inp.letters_months)
        petition_days     == MonthsToDays(inp.petition_months)
        i140_days         == MonthsToDays(100 * i140_approval_months)
        rfe_response_days == MonthsToDays(RfeMonths(inp.rfe_toggle).response)
        rfe_review_days   == MonthsToDays(RfeMonths(inp.rfe_toggle).review)
        i485_days         == MonthsToDays(inp.i485_processing_months)
        ead_days          == MonthsToDays(inp.ead_months)
        letters_done      == inp.niw_start + letters_days
        petition_ready    == letters_done + petition_days
        i140_filed        == inp.i140_user_filed
        priority_date     == i140_filed
        i140_approved     == I140Approved(i140_filed, inp.premium, inp.rfe_toggle,
                                          i140_days, rfe_response_days, rfe_review_days)
        bf                == BacklogDays(priority_date, filing_cutoff)
        bl                == BacklogDays(priority_date, final_cutoff)
    IN  IF bf.exc # "" THEN [NoCalc EXCEPT !.exc = bf.exc]
        ELSE IF bl.exc # "" THEN [NoCalc EXCEPT !.exc = bl.exc]
        ELSE
        LET backlog_filing_days == bf.val
            backlog_final_days  == bl.val
            i485_eligible_date  == i140_approved + backlog_filing_days
            final_action_date   == i485_eligible_date + backlog_final_days
            ead_received        == i485_eligible_date + ead_days
            gc_received         == final_action_date + i485_days
        IN  [exc |-> "", ran |-> TRUE,
             letters_done |-> letters_done, petition_ready |-> petition_ready,
             priority_date |-> priority_date, i140_approved |-> i140_approved,
             backlog_filing_days |-> backlog_filing_days,
             backlog_final_days |-> backlog_final_days,
             i485_eligible_date |-> i485_eligible_date,
             final_action_date |-> final_action_date,
             ead_received |-> ead_received, gc_received |-> gc_received,
             milestones |->
                << <<"NIW Preparation Started", inp.niw_start>>,
                   <<"Letters Completed", letters_done>>,
                   <<"I-140 Filed (Priority Date)", priority_date>>,
                   <<"I-140 Approved", i140_approved>>,
                   <<"I-485 Eligible to File", i485_eligible_date>>,
                   <<"EAD/AP Received", ead_received>>,
                   <<"Final Action Current", final_action_date>>,
                   <<"Green Card Approved", gc_received>> >>,
             timeline_data |->
                << <<"Preparation Phase", inp.niw_start, petition_ready>>,
                   <<"I-140 Pending", i140_filed, i140_approved>>,
                   <<"Backlog Wait", i140_approved, i485_eligible_date>>,
                   <<"I-485 Pending", i485_eligible_date, gc_received>>,
                   <<"EAD/AP card", i485_eligible_date, ead_received>>,
                   <<"Green Card Received", gc_received, gc_received + 15>> >>]

(***************************************************************************)
(* The priority date check.  A message is <<call, text, value>>; a number  *)
(* of days shown as months is kept in days.                                *)
(***************************************************************************)
NoCheck ==
    [exc |-> "", ran |-> FALSE, backlog_days |-> 0, backlog_days_decision |-> 0,
     reg_i140_decision |-> None, prem_i140_decision |-> None,
     green_card_decision |-> None, messages |-> <<>>]

PriorityDateCheck(i140_user_filed, filing_cutoff, final_cutoff, today) ==
    IF filing_cutoff = None THEN NoCheck
    ELSE
    LET late     == i140_user_filed > filing_cutoff
        first    == IF late THEN <<>>
                    ELSE << <<"success", "Priority Date is current for filing.", 0>> >>
        backlog_days == i140_user_filed - filing_cutoff
        decision == DateDiff(i140_user_filed, final_cutoff)
    IN  IF decision.exc # ""
        THEN [NoCheck EXCEPT !.exc = decision.exc, !.ran = TRUE, !.messages = first]
        ELSE
        LET backlog_days_decision == decision.val
            reg_i140_decision     == i140_user_filed + 8 * 30
            prem_i140_decision    == i140_user_filed + 45
            average  == IF late
                        THEN << <<"write", "Average processing time: 8 months or 45 days with premium processing", 0>> >>
                        ELSE <<>>
            common   ==
                << <<"write", "Expected I-140 decision [regular]", reg_i140_decision>>,
                   <<"write", "Expected I-140 decision [premium]", prem_i140_decision>>,
                   <<"write", "Change of Status in Backlog [Filling]", backlog_days>>,
                   <<"write", "Change of Status in Backlog [Decision]", backlog_days_decision>> >>
            verdict  ==
                IF late
                THEN << <<"warning", "Change of Status cannot be submitted.", 0>>,
                        <<"warning", "Change of Status can be filed on",
                          today + backlog_days_decision>> >>
                ELSE << <<"success", "Change of Status can be submitted.", 0>>,
                        <<"success", "Change of Status can be filed on",
                          today + backlog_days_decision>> >>
        IN  [exc |-> "", ran |-> TRUE,
             backlog_days |-> backlog_days,
             backlog_days_decision |-> backlog_days_decision,
             reg_i140_decision |-> reg_i140_decision,
             prem_i140_decision |-> prem_i140_decision,
             green_card_decision |->
                 (IF late THEN today ELSE final_cutoff) + backlog_days + 8 * 30,
             messages |-> first \o average \o common \o verdict]

(***************************************************************************)
(* The inputs a run is given.                                              *)
(***************************************************************************)
Todays == {ToOrdinal(2026, 1, 31), ToOrdinal(2026, 2, 10), ToOrdinal(2026, 12, 15)}

Statuses == {200, 404}

Countries == {"CHINA", "INDIA", "MEXICO"}

Preferences == {"EB-1", "EB-2", "EB-3"}

\* the I-140 Priority Date widget: its default is date.today()
PriorityDates(today) == {ToOrdinal(2012, 6, 1), ToOrdinal(2022, 6, 15), today}

\* the case preparation and adjustment of status widgets, within their ranges
CaseProfiles ==
    { [niw_start |-> ToOrdinal(2026, 2, 1), letters_months |-> 300,
       petition_months |-> 100, i485_processing_months |-> 600, ead_months |-> 1200],
      [niw_start |-> ToOrdinal(2011, 1, 15), letters_months |-> 50,
       petition_months |-> 200, i485_processing_months |-> 2200, ead_months |-> 100] }

Inputs(profile, premium, rfe_toggle, country, eb_type, i140_user_filed) ==
    [niw_start |-> profile.niw_start,
     letters_months |-> profile.letters_months,
     petition_months |-> profile.petition_months,
     premium |-> premium,
     rfe_toggle |-> rfe_toggle,
     i485_processing_months |-> profile.i485_processing_months,
     ead_months |-> profile.ead_months,
     country |-> country,
     eb_type |-> eb_type,
     i140_user_filed |-> i140_user_filed]

\* the widgets' default values
DefaultInputs(today) ==
    Inputs([niw_start |-> ToOrdinal(2026, 2, 1), letters_months |-> 0,
            petition_months |-> 100, i485_processing_months |-> 800,
            ead_months |-> 400],
           FALSE, FALSE, "Rest of World", "EB-2", today)

(***************************************************************************)
(* State                                                                   *)
(***************************************************************************)
VARIABLES
    today,          \* date.today()
    session_state,  \* st.session_state: survives from run to run
    cached_for,     \* the <<country, eb_type>> session_state's pair was looked up for
    pc,             \* the section of the script the run is at
    inp,            \* the widgets' values in this run
    bulletin,       \* what get_latest_visa_bulletin_url returned, with its probes
    page,           \* the page scrape_visa_bulletin read
    scraped,        \* what scrape_visa_bulletin returned
    filing_cutoff,  \* the script's filing_cutoff
    final_cutoff,   \* the script's final_cutoff
    check,          \* the priority date check's variables
    calc,           \* the calculation's variables
    messages,       \* what the run has shown
    error           \* the exception that ended the run

vars == <<today, session_state, cached_for, pc, inp, bulletin, page, scraped,
          filing_cutoff, final_cutoff, check, calc, messages, error>>

EmptySession == [k \in {} |-> None]

NoScrape == ScrapeResult("", None, None, <<>>)

Init ==
    /\ today \in Todays
    /\ session_state = EmptySession
    /\ cached_for = <<>>
    /\ pc = "idle"
    /\ inp = DefaultInputs(today)
    /\ bulletin = NotFound(<<>>)
    /\ page = ""
    /\ scraped = NoScrape
    /\ filing_cutoff = None
    /\ final_cutoff = None
    /\ check = NoCheck
    /\ calc = NoCalc
    /\ messages = <<>>
    /\ error = ""

(***************************************************************************)
(* A run starts: the widgets are read and session_state gets its keys.     *)
(***************************************************************************)
InitSession(ss) ==
    IF "filing_cutoff" \in DOMAIN ss THEN ss
    ELSE [k \in {"filing_cutoff", "final_cutoff"} |-> None]

Rerun ==
    /\ pc = "idle"
    /\ \E t \in Todays, profile \in CaseProfiles, premium \in BOOLEAN,
          rfe_toggle \in BOOLEAN, country \in Countries, eb_type \in Preferences :
          /\ t >= today
          /\ today' = t
          /\ \E i140_user_filed \in PriorityDates(t) :
                inp' = Inputs(profile, premium, rfe_toggle, country, eb_type,
                              i140_user_filed)
    /\ session_state' = InitSession(session_state)
    /\ pc' = "locate"
    /\ UNCHANGED <<cached_for, bulletin, page, scraped, filing_cutoff, final_cutoff,
                   check, calc, messages, error>>

(***************************************************************************)
(* url, bulletin_month, bulletin_year = get_latest_visa_bulletin_url()     *)
(***************************************************************************)
Locate ==
    /\ pc = "locate"
    /\ \E web \in [CandidateUrls(today) -> Statuses] :
          bulletin' = get_latest_visa_bulletin_url(today, web)
    /\ pc' = "cutoffs"
    /\ UNCHANGED <<today, session_state, cached_for, inp, page, scraped,
                   filing_cutoff, final_cutoff, check, calc, messages, error>>

(***************************************************************************)
(* if url: ... scrape_visa_bulletin ... and the cutoffs read back from     *)
(* session_state                                                           *)
(***************************************************************************)
\* st.session_state.filing_cutoff = a; st.session_state.final_cutoff = f
StoreCutoffs(ss, f, a) ==
    [ss EXCEPT !["filing_cutoff"] = a, !["final_cutoff"] = f]

ShowCutoffs(ss) ==
    << <<"write", "USCIS Filing Date:", ss["filing_cutoff"]>>,
       <<"write", "USCIS Final Action Date:", ss["final_cutoff"]>> >>

ReadCutoffs ==
    /\ pc = "cutoffs"
    /\ IF bulletin.url # NoUrl
       THEN \E p \in PageNames :
            \E r \in {scrape_visa_bulletin(p, inp.country, inp.eb_type, today)} :
              LET info == << <<"info", "Using Visa Bulletin", bulletin.year>> >>
                  errs == [i \in 1 .. Len(r.errors) |-> <<"error", r.errors[i], 0>>]
              IN  /\ page' = p
                  /\ scraped' = r
                  /\ IF r.exc # ""
                     THEN /\ error' = r.exc
                          /\ pc' = "failed"
                          /\ messages' = messages \o info \o errs
                          /\ UNCHANGED <<session_state, cached_for,
                                         filing_cutoff, final_cutoff>>
                     ELSE LET ss == StoreCutoffs(session_state, r.f, r.a)
                          IN  /\ session_state' = ss
                              /\ cached_for' = <<inp.country, inp.eb_type>>
                              /\ messages' = messages \o info \o errs \o ShowCutoffs(ss)
                              /\ filing_cutoff' = ss["filing_cutoff"]
                              /\ final_cutoff' = ss["final_cutoff"]
                              /\ pc' = "check"
                              /\ UNCHANGED error
       ELSE /\ messages' = messages \o ShowCutoffs(session_state)
            /\ filing_cutoff' = session_state["filing_cutoff"]
            /\ final_cutoff' = session_state["final_cutoff"]
            /\ pc' = "check"
            /\ UNCHANGED <<session_state, cached_for, page, scraped, error>>
    /\ UNCHANGED <<today, inp, bulletin, check, calc>>

(***************************************************************************)
(* if filing_cutoff: ...                                                   *)
(***************************************************************************)
CheckPriorityDate ==
    /\ pc = "check"
    /\ \E r \in {PriorityDateCheck(inp.i140_user_filed, filing_cutoff, final_cutoff, today)} :
           /\ check' = r
           /\ messages' = messages \o r.messages
           /\ error' = r.exc
           /\ pc' = IF r.exc # "" THEN "failed" ELSE "calc"
    /\ UNCHANGED <<today, session_state, cached_for, inp, bulletin, page, scraped,
                   filing_cutoff, final_cutoff, calc>>

(***************************************************************************)
(* if niw_start: ... the milestones table                                  *)
(***************************************************************************)
Calculate ==
    /\ pc = "calc"
    /\ \E r \in {Calculations(inp, filing_cutoff, final_cutoff)} :
           /\ calc' = r
           /\ error' = r.exc
           /\ messages' = IF r.exc # "" THEN messages
                          ELSE messages \o << <<"dataframe", "Key Milestones", 0>>,
                                              <<"plotly_chart", "Case Timeline", 0>> >>
           /\ pc' = IF r.exc # "" THEN "failed" ELSE "done"
    /\ UNCHANGED <<today, session_state, cached_for, inp, bulletin, page, scraped,
                   filing_cutoff, final_cutoff, check>>

(***************************************************************************)
(* The script returns or is stopped by its exception: the page stays as    *)
(* shown, the run's variables are gone, session_state is kept.  The next   *)
(* interaction starts the next run.                                        *)
(***************************************************************************)
EndRun ==
    /\ pc \in {"done", "failed"}
    /\ pc' = "idle"
    /\ inp' = DefaultInputs(today)
    /\ bulletin' = NotFound(<<>>)
    /\ page' = ""
    /\ scraped' = NoScrape
    /\ filing_cutoff' = None
    /\ final_cutoff' = None
    /\ check' = NoCheck
    /\ calc' = NoCalc
    /\ messages' = <<>>
    /\ error' = ""
    /\ UNCHANGED <<today, session_state, cached_for>>

Next == Rerun \/ Locate \/ ReadCutoffs \/ CheckPriorityDate \/ Calculate \/ EndRun

Spec == Init /\ [][Next]_vars

(***************************************************************************)
(* Properties                                                              *)
(***************************************************************************)
MaxAltApprovalMonths == 6

\* the run got as far as reading the cutoffs back from session_state
CutoffsRead ==
    pc \in {"check", "calc", "done"} \/ (pc = "failed" /\ scraped.exc = "")

RunEnded == pc \in {"done", "failed"}

\* the cell of the k-th employment table of the page read, for the selection
SelectedCell(k) ==
    Loc(normalize_df(SetHeaderAndIndex(EmploymentTables(PageTables(page))[k])),
        eb_dict(inp.eb_type), Upper(country_dict(inp.country)))

\* the selection has a cell in both employment tables of the page read
SelectionFound ==
    /\ page # ""
    /\ Len(EmploymentTables(PageTables(page))) >= 2
    /\ SelectedCell(1).exc = ""
    /\ SelectedCell(2).exc = ""

NonDecreasing(ms) == \A i \in 1 .. (Len(ms) - 1) : ms[i][2] <= ms[i + 1][2]

(* C1: the backlog offsets of a completed calculation are never negative,  *)
(* and when the priority date is no later than either cutoff both are 0,   *)
(* the I-485 eligible date is the I-140 approval date and the final action *)
(* date is the I-485 eligible date.                                        *)
C1_BacklogOffsets ==
    calc.ran =>
        /\ calc.backlog_filing_days >= 0
        /\ calc.backlog_final_days >= 0
        /\ (calc.priority_date <= filing_cutoff /\ calc.priority_date <= final_cutoff) =>
              /\ calc.backlog_filing_days = 0
              /\ calc.backlog_final_days = 0
              /\ calc.i485_eligible_date = calc.i140_approved
              /\ calc.final_action_date = calc.i485_eligible_date

\* a completed calculation whose priority date is earlier than both cutoffs
C1_Witness ==
    /\ calc.ran
    /\ calc.priority_date < filing_cutoff
    /\ calc.priority_date < final_cutoff

(* C2: in a completed run that read the bulletin, the cutoff subtracted in *)
(* backlog_filing_days is the selection's cell of the first employment     *)
(* table and the one subtracted in backlog_final_days is its cell of the   *)
(* second employment table.                                                *)
C2_FilingCutoffFromFirstTable ==
    (pc = "done" /\ SelectionFound) =>
        /\ filing_cutoff = parse_visa_date(SelectedCell(1).val, today).val
        /\ final_cutoff = parse_visa_date(SelectedCell(2).val, today).val

(* C3 as stated: with premium set, the I-140 approval date is the priority *)
(* date plus the premium constant, whatever the regular approval duration. *)
C3_PremiumFixesApproval ==
    (calc.ran /\ inp.premium) =>
        \A m \in 1 .. MaxAltApprovalMonths :
            I140Approved(inp.i140_user_filed, inp.premium, inp.rfe_toggle,
                         MonthsToDays(100 * m),
                         MonthsToDays(RfeMonths(inp.rfe_toggle).response),
                         MonthsToDays(RfeMonths(inp.rfe_toggle).review))
            = inp.i140_user_filed + PremiumDays

(* C3 amended: with premium set and no RFE expected, the I-140 approval    *)
(* date of the run is the priority date plus the premium constant, and     *)
(* stays so for every regular approval duration.                           *)
C3_PremiumWithoutRfe ==
    (calc.ran /\ inp.premium /\ ~inp.rfe_toggle) =>
        /\ calc.i140_approved = inp.i140_user_filed + PremiumDays
        /\ \A m \in 1 .. MaxAltApprovalMonths :
              I140Approved(inp.i140_user_filed, inp.premium, inp.rfe_toggle,
                           MonthsToDays(100 * m),
                           MonthsToDays(RfeMonths(inp.rfe_toggle).response),
                           MonthsToDays(RfeMonths(inp.rfe_toggle).review))
              = calc.i140_approved

\* a completed premium calculation without RFE
C3_Witness == calc.ran /\ inp.premium /\ ~inp.rfe_toggle

(* C4: with RFE expected and a positive RFE response plus review time, the *)
(* I-140 approval date is strictly later than that of the same inputs with *)
(* RFE not expected.                                                       *)
C4_RfeIsLater ==
    (/\ calc.ran
     /\ inp.rfe_toggle
     /\ MonthsToDays(RfeMonths(inp.rfe_toggle).response)
          + MonthsToDays(RfeMonths(inp.rfe_toggle).review) > 0)
    => calc.i140_approved >
          Calculations([inp EXCEPT !.rfe_toggle = FALSE],
                       filing_cutoff, final_cutoff).i140_approved

\* a completed regular-processing calculation with RFE expected
C4_Witness == calc.ran /\ inp.rfe_toggle /\ ~inp.premium

(* C5 as stated: the eight milestones, in their output order, have         *)
(* non-decreasing dates.                                                   *)
C5_MilestonesNonDecreasing == calc.ran => NonDecreasing(calc.milestones)

(* C5 amended: the milestone dates are non-decreasing along each chain     *)
(* (Preparation Started, Letters Completed; I-140 Filed, I-140 Approved,   *)
(* I-485 Eligible, EAD/AP Received; I-485 Eligible, Final Action Current,  *)
(* Green Card Approved), and the whole list is non-decreasing whenever     *)
(* Letters Completed is no later than I-140 Filed and EAD/AP Received is   *)
(* no later than Final Action Current.                                     *)
C5_MilestoneChains ==
    calc.ran =>
        LET d == [i \in 1 .. 8 |-> calc.milestones[i][2]]
        IN  /\ Len(calc.milestones) = 8
            /\ d[1] <= d[2]
            /\ d[3] <= d[4] /\ d[4] <= d[5] /\ d[5] <= d[6]
            /\ d[5] <= d[7] /\ d[7] <= d[8]
            /\ (d[2] <= d[3] /\ d[6] <= d[7]) => NonDecreasing(calc.milestones)

\* a completed calculation with a backlog wait whose list is in order
C5_Witness ==
    /\ calc.ran
    /\ calc.backlog_filing_days > 0
    /\ calc.letters_done <= calc.priority_date
    /\ calc.ead_received <= calc.final_action_date

(* C6: a run in which no bulletin URL was found reads no page, ends        *)
(* without an exception and shows no backlog-dependent output.             *)
C6_NotFoundIsNotFatal ==
    (RunEnded /\ bulletin.url = NoUrl) =>
        /\ page = ""
        /\ pc = "done"
        /\ error = ""
        /\ ~check.ran

(* C7: the cell "U" parses to None, and a run whose filing cutoff or final *)
(* cutoff is None never completes the priority date check or the           *)
(* calculation: it shows no backlog figure and no milestones, and it ends  *)
(* with the TypeError the subtraction raises.                              *)
C7_UnavailableFailsExplicitly ==
    /\ parse_visa_date(Txt(<<"U">>), today) = Returned(None)
    /\ (CutoffsRead /\ (filing_cutoff = None \/ final_cutoff = None)) =>
          /\ ~calc.ran
          /\ calc.milestones = <<>>
          /\ check.ran => check.exc = "TypeError"
          /\ \A i \in 1 .. Len(messages) :
                messages[i][1] \notin {"warning", "dataframe", "plotly_chart"}
                /\ messages[i][2] \notin {"Change of Status in Backlog [Filling]",
                                          "Change of Status in Backlog [Decision]",
                                          "Change of Status can be filed on"}
          /\ RunEnded => (pc = "failed" /\ error = "TypeError")

\* a run ended by the TypeError after a "U" cell gave the filing cutoff
C7_Witness ==
    /\ pc = "failed"
    /\ error = "TypeError"
    /\ SelectionFound
    /\ Strip(SelectedCell(2).val.text) = <<"U">>
    /\ filing_cutoff = None
    /\ final_cutoff # None

(* C8: a completed run's cutoffs were looked up for the country and        *)
(* preference selected in that run.                                        *)
C8_NoStaleCutoffs ==
    pc = "done" => cached_for = <<inp.country, inp.eb_type>>

(* C9: the next calendar month is probed first and the current month       *)
(* second, in at most two fetches; the next month's bulletin is returned   *)
(* when its fetch answers 200, the current month's only when the first     *)
(* did not and the second did, and (None, None, None) exactly when neither *)
(* did; the month and year returned are those of the URL that answered.    *)
C9_ProbeOrder ==
    pc \notin {"idle", "locate"} =>
        LET y       == YearOf(today)
            m       == MonthOf(today)
            nextUrl == IF m = 12 THEN BulletinUrl(y + 1, MonthNameLower(1))
                       ELSE BulletinUrl(y, MonthNameLower(m + 1))
            thisUrl == BulletinUrl(y, MonthNameLower(m))
            probes  == bulletin.probes
            named(u) == /\ bulletin.url = u
                        /\ bulletin.year = u.year
                        /\ bulletin.month = Capitalize(u.month_name)
        IN  /\ Len(probes) \in {1, 2}
            /\ probes[1].url = nextUrl
            /\ probes[1].status = OkStatus => (Len(probes) = 1 /\ named(nextUrl))
            /\ probes[1].status # OkStatus =>
                  /\ Len(probes) = 2
                  /\ probes[2].url = thisUrl
                  /\ probes[2].status = OkStatus => named(thisUrl)
                  /\ probes[2].status # OkStatus =>
                        (bulletin.url = NoUrl /\ bulletin.month = "" /\ bulletin.year = None)
            /\ bulletin.url = NoUrl <=>
                  \A k \in 1 .. Len(probes) : probes[k].status # OkStatus

\* the current month's bulletin returned after the next month's was not found
C9_Witness ==
    /\ pc = "cutoffs"
    /\ Len(bulletin.probes) = 2
    /\ bulletin.probes[2].status = OkStatus
    /\ bulletin.url = bulletin.probes[2].url
    /\ MonthOf(today) = 12

(* C10: when the selection has a cell in both tables, a cell that is not   *)
(* "C", "U" or a date in the compact format (an empty cell included) makes *)
(* scrape_visa_bulletin raise; it never returns a pair for it.             *)
C10_StrictCellParsing ==
    SelectionFound =>
        LET valid(cell) ==
                /\ cell.kind = "str"
                /\ \/ Strip(cell.text) \in {<<"C">>, <<"U">>}
                   \/ Strptime(Strip(cell.text)).exc = ""
        IN  (~valid(SelectedCell(1).val) \/ ~valid(SelectedCell(2).val))
                => scraped.exc # ""

====
